---- MODULE Spec2Model ----
(***************************************************************************)
(* Model of the Deezer client of haberlea-deezer: the session state kept   *)
(* by DeezerApi, the gateway call with its auto-relogin, login_via_arl,    *)
(* the media resolver get_track_url and the Blowfish chunk                 *)
(* processor.  Every task is one coroutine running on the event loop; a    *)
(* step of a task is the synchronous code between two awaits on the        *)
(* network, so a task is suspended exactly while a request is in flight.   *)
(***************************************************************************)
EXTENDS Integers, Sequences, FiniteSets, TLC

\* ------------------------------------------------------------------------
\* Bounds of the model
\* ------------------------------------------------------------------------
MaxOps == 2
MaxTicks == 1
TicksPerSec == 2
StartTime == 10000
MaxChunkIndex == 3
MaxStreamBlocks == 4

\* ------------------------------------------------------------------------
\* Program constants
\* ------------------------------------------------------------------------
RenewThreshold == 3600
block_size == 2048
DefaultChunkSize == 1048576

AuthMethods == {"deezer.getUserData", "user.getArl"}
InitialFormats == <<"MP3_128">>
format_map == <<[key |-> "web_hq", fmt |-> "MP3_320"],
                [key |-> "web_lossless", fmt |-> "FLAC"]>>

\* ------------------------------------------------------------------------
\* The service: credentials it knows and the answers it can give
\* ------------------------------------------------------------------------
Tasks == {1, 2}
ValidArls == {"A1"}
Arls == ValidArls \cup {"AX"}
PublicMethods == {"song.getData", "deezer.pageTrack"}
TickSteps == {1, (RenewThreshold - 1) * TicksPerSec, RenewThreshold * TicksPerSec}

UserData(checkForm, country, license, lang, hq, lossless, uid) ==
    [checkForm |-> checkForm, COUNTRY |-> country,
     USER |-> [OPTIONS |-> [license_token |-> license, web_hq |-> hq,
                            web_lossless |-> lossless],
               SETTING |-> [global |-> [language |-> lang]],
               USER_ID |-> uid]]

\* deezer.getUserData answers for the account of the arl cookie; without a
\* valid cookie it answers for the anonymous user (USER_ID 0), with an
\* anonymous token or with no token at all.
UserDataFor(c) ==
    IF c \in ValidArls THEN {UserData("T1", "US", "L1", "fr", TRUE, FALSE, 1),
                              UserData("T1", "US", "L1", "fr", TRUE, TRUE, 1)}
    ELSE {UserData("T0", "DE", "L0", "de", FALSE, FALSE, 0),
          UserData("", "DE", "L0", "de", FALSE, FALSE, 0)}

ErrorEnvelope == [VALID_TOKEN_REQUIRED |-> "Invalid CSRF token"]
NoError == <<>>

\* The data of a track: the size of its file in each format ("0": no such
\* file), the countries it may be streamed in and its token.
TrackData(flac, mp3_320, mp3_128, countries) ==
    [SNG_ID |-> "7", SNG_TITLE |-> "title", TRACK_TOKEN |-> "K1",
     FILESIZE_FLAC |-> flac, FILESIZE_MP3_320 |-> mp3_320,
     FILESIZE_MP3_128 |-> mp3_128,
     AVAILABLE_COUNTRIES |-> [STREAM_ADS |-> countries]]

\* deezer.pageTrack wraps the data of a catalogue track in DATA
PageTracks ==
    {[DATA |-> TrackData("900", "300", "100", <<>>)],
     [DATA |-> TrackData("0", "300", "100", <<"US", "DE">>)],
     [DATA |-> TrackData("900", "300", "100", <<"FR">>)],
     [DATA |-> [SNG_ID |-> "7", SNG_TITLE |-> "title"]]}

\* song.getData answers with the bare data; a track a user uploaded has
\* RIGHTS and no file sizes.
SongDatas ==
    {[SNG_ID |-> "-7", SNG_TITLE |-> "upload", TRACK_TOKEN |-> "K1",
      RIGHTS |-> [STREAM_ADS_AVAILABLE |-> ads]] : ads \in BOOLEAN}

\* user.getArl answers with the credential of the account that
\* user_auth.php has signed in.
GwResults(rq) ==
    IF rq.method = "deezer.getUserData" THEN UserDataFor(rq.cookie)
    ELSE IF rq.method = "user.getArl" THEN ValidArls
    ELSE IF rq.method = "song.getData"
         THEN IF "array_default" \in DOMAIN rq.payload
              THEN {[TRACK_TOKEN |-> "K2"], [SNG_ID |-> "1"]}
              ELSE IF rq.payload.sng_id = "1"
                   THEN {[SNG_ID |-> "1", TRACK_TOKEN |-> "K2"]}
                   ELSE SongDatas
    ELSE IF rq.method = "deezer.pageTrack" /\ rq.payload.sng_id # "1"
         THEN PageTracks
    ELSE {[DATA |-> "track"]}

GwResponses(rq) ==
    {[error |-> NoError, results |-> r] : r \in GwResults(rq)}
    \cup {[error |-> ErrorEnvelope, results |-> <<>>]}

AudioFormats == {"FLAC"}
ChunkSizes == {-2048, -1, 0, 1, 2047, 2048, 2049, 4096, DefaultChunkSize}
ChunkLens == {0, 1, 2047, 2048, 2049, 4096, 5000, 6144, 7000}
MediaShapes == {"ok", "no_data", "empty_data", "empty_media", "empty_sources"}

\* Concurrent downloads, the tracks they fetch and the encrypted streams the
\* CDN serves: whole blocks, or a last block cut short (5000 bytes are
\* three blocks less 1144 bytes).
Downloads == {1, 2}
TrackIds == {"1", "2"}
StreamLens ==
    {b * block_size - r : b \in 1..MaxStreamBlocks, r \in {0, 1144}}
\* download_and_decrypt_track fixes chunk_size at 1 MiB; the smaller sizes
\* put chunk boundaries inside the short streams above.
StreamChunkSizes == {block_size, 2 * block_size, DefaultChunkSize}

\* ------------------------------------------------------------------------
\* State
\* ------------------------------------------------------------------------
VARIABLES
    api_token, country, license_token, language, renew_timestamp,
    available_formats, _arl,      \* DeezerApi fields
    cookie,                       \* the arl cookie of session.cookie_jar
    user_arl,                     \* settings["user_arl"] of the interface
    now,                          \* time(), in ticks
    task,                         \* the coroutines
    ops, ticks,                   \* operations started, clock steps taken
    authed,                       \* a bootstrap for a real user has completed
    last_user_data,               \* results of the last bootstrap processed
    decryptor, out,               \* chunk processor and its last output
    download,                     \* the downloads and what they have written
    tsc                           \* the entries of the session storage

session_vars == <<api_token, country, license_token, language,
                  renew_timestamp, available_formats>>
vars == <<api_token, country, license_token, language, renew_timestamp,
          available_formats, _arl, cookie, user_arl, now, task, ops, ticks,
          authed, last_user_data, decryptor, out, download, tsc>>

SessionOf ==
    [api_token |-> api_token, country |-> country,
     license_token |-> license_token, language |-> language,
     renew_timestamp |-> renew_timestamp,
     available_formats |-> available_formats]

SetSession(s) ==
    /\ api_token' = s.api_token
    /\ country' = s.country
    /\ license_token' = s.license_token
    /\ language' = s.language
    /\ renew_timestamp' = s.renew_timestamp
    /\ available_formats' = s.available_formats

NoReq == [endpoint |-> "", method |-> "", api_token |-> "", cookie |-> "",
          payload |-> <<>>]
NoResult == [status |-> "", api_endpoint |-> "", error_message |-> <<>>,
             value |-> <<>>]
\* One _gw_api_call: its arguments, whether it is waiting for the nested
\* bootstrap, and a record of what it did (the token and credential it found
\* on entry, the requests it sent, the answers it got, its rank among the
\* calls of its operation).
NoCall == [n |-> 0, method |-> "", payload |-> <<>>, nested |-> FALSE,
           state |-> "", relogin |-> FALSE, entry_token |-> "",
           entry_arl |-> "", reqs |-> <<>>, boot |-> <<>>, results |-> <<>>]
NoArgs == [arl |-> "", track_token |-> "", track_token_expiry |-> 0,
           audio_format |-> "", email |-> "", password |-> ""]
\* The locals of get_track_info once the availability has been checked, and
\* the formats and country of the session at that moment
NoInfo == [track_id |-> 0, quality_tier |-> "", is_user_uploaded |-> FALSE,
           requested |-> "", t_data |-> <<>>, audio_format |-> "",
           error |-> <<>>, checked |-> <<>>]
\* The frame of ModuleInterface.login when it is the caller of the client
\* operation: its arguments, its local arl, and a record of the attempts
\* it has made.
NoLogin == [active |-> FALSE, email |-> "", password |-> "", arl |-> "",
            tried |-> <<>>]
\* One coroutine: the operation it runs and where it is suspended, its
\* arguments and locals, the request in flight and the result, and a record
\* of the operation (session on entry, requests sent, clock at the two
\* expiry tests, shape of the media response).
IdleTask == [op |-> "", pc |-> "idle", where |-> "", args |-> NoArgs,
             track_token |-> "", gw |-> NoCall, req |-> NoReq,
             result |-> NoResult, sent |-> <<>>, pre |-> <<>>,
             renew_now |-> -1, expiry_now |-> -1, media |-> "",
             info |-> NoInfo, login |-> NoLogin]

\* ------------------------------------------------------------------------
\* DeezerApi._gw_api_call
\* ------------------------------------------------------------------------
\* ceil(time()), the clock counting TicksPerSec ticks to the second
Ceil(t) == ((t + TicksPerSec - 1) \div TicksPerSec) * TicksPerSec

NeedsRelogin_TokenPresent(method, tok, a) ==
    tok # "" /\ a # "" /\ method \notin AuthMethods

NeedsRelogin(method, tok, a) ==
    tok = "" /\ a # "" /\ method \notin AuthMethods

RequestToken_Always(method, tok) == tok

RequestToken(method, tok) ==
    IF method \notin AuthMethods THEN tok ELSE ""

GwRequest(method, payload, tok, c) ==
    [endpoint |-> "GW_LIGHT_URL", method |-> method,
     api_token |-> RequestToken(method, tok), cookie |-> c,
     payload |-> payload]

Formats_HqOnly(options, i, acc) ==
    IF options.web_hq THEN Append(acc, "MP3_320") ELSE acc

RECURSIVE Formats(_, _, _)
Formats(options, i, acc) ==
    IF i > Len(format_map) THEN acc
    ELSE Formats(options, i + 1,
                 IF options[format_map[i].key]
                 THEN Append(acc, format_map[i].fmt) ELSE acc)

\* An update that is cut short after its first two assignments
UpdatedSession_Partial(results, t) ==
    [SessionOf EXCEPT !.api_token = results.checkForm,
                      !.country = results.COUNTRY]

UpdatedSession(results, t) ==
    [api_token |-> results.checkForm,
     country |-> results.COUNTRY,
     license_token |-> results.USER.OPTIONS.license_token,
     renew_timestamp |-> Ceil(t),
     language |-> results.USER.SETTING.global.language,
     available_formats |-> Formats(results.USER.OPTIONS, 1, InitialFormats)]

Sent(rq, nested) == [req |-> rq, nested |-> nested]

\* Entry of a gateway call up to its first request: the nested bootstrap
\* when the auto-relogin is due, the call's own request otherwise.
GwEnter(tk, method, payload, s, a, c) ==
    LET relogin == NeedsRelogin(method, s.api_token, a)
        rq == IF relogin
              THEN GwRequest("deezer.getUserData", <<>>, s.api_token, c)
              ELSE GwRequest(method, payload, s.api_token, c)
    IN [tk EXCEPT
          !.pc = "await_gw",
          !.gw = [n |-> tk.gw.n + 1,
                  method |-> method, payload |-> payload, nested |-> relogin,
                  state |-> IF relogin THEN "boot" ELSE "own",
                  relogin |-> relogin, entry_token |-> s.api_token,
                  entry_arl |-> a, reqs |-> <<rq>>, boot |-> <<>>,
                  results |-> <<>>],
          !.req = rq,
          !.sent = Append(@, Sent(rq, relogin))]

\* A call that tests the token again after its bootstrap and repeats it
GwOwn_Retry(tk, results, s, c) ==
    LET again == NeedsRelogin(tk.gw.method, s.api_token, tk.gw.entry_arl)
        rq == IF again
              THEN GwRequest("deezer.getUserData", <<>>, s.api_token, c)
              ELSE GwRequest(tk.gw.method, tk.gw.payload, s.api_token, c)
    IN [tk EXCEPT !.gw.nested = again,
                  !.gw.state = IF again THEN "boot" ELSE "own",
                  !.gw.boot = results, !.gw.reqs = Append(@, rq),
                  !.req = rq, !.sent = Append(@, Sent(rq, again))]

\* The nested bootstrap has returned: the call sends its own request.
GwOwn(tk, results, s, c) ==
    LET rq == GwRequest(tk.gw.method, tk.gw.payload, s.api_token, c)
    IN [tk EXCEPT !.gw.nested = FALSE, !.gw.state = "own",
                  !.gw.boot = results, !.gw.reqs = Append(@, rq),
                  !.req = rq, !.sent = Append(@, Sent(rq, FALSE))]

GwReturned(tk, results) ==
    [tk EXCEPT !.gw.state = "returned", !.gw.results = results, !.req = NoReq]

Raise_NoEndpoint(tk, status, endpoint, msg) ==
    [tk EXCEPT !.pc = "done", !.req = NoReq,
               !.result = [status |-> status, api_endpoint |-> "",
                           error_message |-> msg, value |-> <<>>]]

Raise(tk, status, endpoint, msg) ==
    [tk EXCEPT !.pc = "done", !.req = NoReq,
               !.result = [status |-> status, api_endpoint |-> endpoint,
                           error_message |-> msg, value |-> <<>>]]

Return(tk, value) ==
    [tk EXCEPT !.pc = "done", !.req = NoReq,
               !.result = [status |-> "ok", api_endpoint |-> "",
                           error_message |-> <<>>, value |-> value]]

ErrorOf(resp) ==
    LET error_type == CHOOSE k \in DOMAIN resp.error : TRUE
    IN <<error_type, resp.error[error_type]>>

NoDecryptor == [status |-> "none", chunk_size |-> 0, blocks_per_chunk |-> 0]

\* One download_and_decrypt_track: the key and the chunk processor it made,
\* the stream it reads, how far download_file has got, and a record of the
\* chunks handed over and of the blocks written.
NoDownload == [state |-> "none", track_id |-> "", bf_key |-> <<>>,
               chunk_size |-> 0, blocks_per_chunk |-> 0, len |-> 0,
               pos |-> 0, chunk_index |-> 0, chunks |-> <<>>,
               output |-> <<>>]

Init ==
    /\ api_token = ""
    /\ country = ""
    /\ license_token = ""
    /\ language = "en"
    /\ renew_timestamp = 0
    /\ available_formats = InitialFormats
    /\ user_arl \in {""} \cup Arls
    /\ _arl = user_arl
    /\ cookie = user_arl
    /\ now = StartTime * TicksPerSec
    /\ task = [t \in Tasks |-> IdleTask]
    /\ ops = 0
    /\ ticks = 0
    /\ authed = FALSE
    /\ last_user_data = <<>>
    /\ decryptor = NoDecryptor
    /\ out = <<>>
    /\ download = [id \in Downloads |-> NoDownload]
    /\ tsc = <<>>

\* No coroutine has a result waiting for its caller
Quiet == \A t \in Tasks : task[t].pc # "done"

Tick ==
    /\ Quiet
    /\ ticks < MaxTicks
    /\ \E d \in TickSteps : now' = now + d
    /\ ticks' = ticks + 1
    /\ UNCHANGED <<session_vars, _arl, cookie, user_arl, task, ops, authed,
                   decryptor, out, download, last_user_data, tsc>>

\* The coroutines are interchangeable: an operation starts on the first
\* idle one.
CanStart(t) ==
    /\ Quiet
    /\ task[t].pc = "idle"
    /\ ops < MaxOps
    /\ \A u \in Tasks : u < t => task[u].pc # "idle"

\* The coroutine hands its result or its exception to the caller, in the
\* step that follows the one that produced it.
Finish(t) ==
    /\ task[t].pc = "done"
    /\ task' = [task EXCEPT ![t] = IdleTask]
    /\ UNCHANGED <<session_vars, _arl, cookie, user_arl, now, ops, ticks,
                   authed, decryptor, out, download, last_user_data, tsc>>

Begin(op, args) ==
    [IdleTask EXCEPT !.op = op, !.args = args, !.pre = SessionOf,
                     !.track_token = args.track_token]

\* ------------------------------------------------------------------------
\* The public wrappers get_track_data and get_track
\* ------------------------------------------------------------------------
StartGw(t) ==
    /\ CanStart(t)
    /\ \E m \in PublicMethods :
         task' = [task EXCEPT ![t] =
                    GwEnter(Begin("gw", NoArgs), m, [sng_id |-> "1"],
                            SessionOf, _arl, cookie)]
    /\ ops' = ops + 1
    /\ UNCHANGED <<session_vars, _arl, cookie, user_arl, now, ticks, authed,
                   decryptor, out, download, last_user_data, tsc>>

\* ------------------------------------------------------------------------
\* DeezerApi.login_via_arl
\* ------------------------------------------------------------------------
LoginRejected(user_data) == user_data.USER.USER_ID = 0

\* The stored credential and the cookie once the bootstrap has returned
ArlAfterLogin_Kept(user_data, a) == a

ArlAfterLogin(user_data, a) == IF LoginRejected(user_data) THEN "" ELSE a

CookieAfterLogin_Kept(user_data, c) == c

CookieAfterLogin(user_data, c) == IF LoginRejected(user_data) THEN "" ELSE c

StartLoginArl(t) ==
    /\ CanStart(t)
    /\ \E a \in Arls :
         /\ _arl' = a
         /\ cookie' = a
         /\ task' = [task EXCEPT ![t] =
                       GwEnter(Begin("login_via_arl", [NoArgs EXCEPT !.arl = a]),
                               "deezer.getUserData", <<>>, SessionOf, a, a)]
    /\ ops' = ops + 1
    /\ UNCHANGED <<session_vars, user_arl, now, ticks, authed, decryptor, out,
                   download, last_user_data, tsc>>

\* ------------------------------------------------------------------------
\* DeezerApi.get_track_url
\* ------------------------------------------------------------------------
RenewDue_Strict(t, ts) == t - ts > RenewThreshold * TicksPerSec

RenewDue(t, ts) == t - ts >= RenewThreshold * TicksPerSec

TrackTokenDue_Strict(t, expiry) == t > expiry

TrackTokenDue(t, expiry) == t >= expiry

\* A request built from the license_token found when the resolution began
MediaRequest_PreLicense(tk, s, c) ==
    [endpoint |-> "MEDIA_URL", method |-> "", api_token |-> "", cookie |-> c,
     payload |-> [license_token |-> tk.pre.license_token,
                  media |-> <<[type |-> "FULL",
                               formats |-> <<[cipher |-> "BF_CBC_STRIPE",
                                              format |-> tk.args.audio_format]>>]>>,
                  track_tokens |-> <<tk.track_token>>]]

MediaRequest(tk, s, c) ==
    [endpoint |-> "MEDIA_URL", method |-> "", api_token |-> "", cookie |-> c,
     payload |-> [license_token |-> s.license_token,
                  media |-> <<[type |-> "FULL",
                               formats |-> <<[cipher |-> "BF_CBC_STRIPE",
                                              format |-> tk.args.audio_format]>>]>>,
                  track_tokens |-> <<tk.track_token>>]]

SendMedia(tk, s, c) ==
    LET rq == MediaRequest(tk, s, c)
    IN [tk EXCEPT !.pc = "await_media", !.where = "media", !.req = rq,
                  !.sent = Append(@, Sent(rq, FALSE))]

TrackTokenStep(tk, s, a, c) ==
    LET tk1 == [tk EXCEPT !.expiry_now = now]
    IN IF TrackTokenDue(now, tk.args.track_token_expiry)
       THEN GwEnter([tk1 EXCEPT !.where = "track_token"], "song.getData",
                    [sng_id |-> "1", array_default |-> <<"TRACK_TOKEN">>],
                    s, a, c)
       ELSE SendMedia(tk1, s, c)

\* get_track_url up to its first request
TrackUrlEnter(tk0) ==
    LET tk == [tk0 EXCEPT !.renew_now = now]
    IN IF RenewDue(now, renew_timestamp)
       THEN GwEnter([tk EXCEPT !.where = "refresh"], "deezer.getUserData",
                    <<>>, SessionOf, _arl, cookie)
       ELSE TrackTokenStep(tk, SessionOf, _arl, cookie)

StartTrackUrl(t) ==
    /\ CanStart(t)
    /\ \E e \in {now, now + 1}, f \in AudioFormats :
         task' = [task EXCEPT ![t] =
                    TrackUrlEnter(Begin("get_track_url",
                        [NoArgs EXCEPT !.track_token = "K1",
                                       !.track_token_expiry = e,
                                       !.audio_format = f]))]
    /\ ops' = ops + 1
    /\ UNCHANGED <<session_vars, _arl, cookie, user_arl, now, ticks, authed,
                   decryptor, out, download, last_user_data, tsc>>

\* ------------------------------------------------------------------------
\* Gateway responses
\* ------------------------------------------------------------------------
\* The response carries an error envelope: the call raises ModuleAPIError,
\* through the outer call when it is the nested bootstrap that failed, and
\* no caller modelled here catches it.
RecvGwError(t) ==
    /\ Quiet
    /\ task[t].pc = "await_gw"
    /\ \E resp \in GwResponses(task[t].req) :
         /\ resp.error # NoError
         /\ task' = [task EXCEPT ![t] =
                       Raise([@ EXCEPT !.gw.state = "raised", !.gw.nested = FALSE],
                             "ModuleAPIError", task[t].req.method,
                             ErrorOf(resp))]
    /\ UNCHANGED <<session_vars, _arl, cookie, user_arl, now, ops, ticks,
                   authed, decryptor, out, download, last_user_data, tsc>>

\* The nested bootstrap of the auto-relogin returns: the session is updated
\* and the call goes on to its own request.
RecvRelogin(t) ==
    /\ Quiet
    /\ task[t].pc = "await_gw"
    /\ task[t].gw.nested
    /\ \E resp \in GwResponses(task[t].req) :
         /\ resp.error = NoError
         /\ LET s1 == UpdatedSession(resp.results, now)
            IN /\ SetSession(s1)
               /\ task' = [task EXCEPT ![t] =
                             GwOwn(@, resp.results, s1, cookie)]
         /\ authed' = (authed \/ ~LoginRejected(resp.results))
         /\ last_user_data' = resp.results
    /\ UNCHANGED <<_arl, cookie, user_arl, now, ops, ticks, decryptor, out,
                   download, tsc>>

\* The session after the call's own response has been processed
AfterOwn_Touch(rq, resp) == [SessionOf EXCEPT !.renew_timestamp = Ceil(now)]

AfterOwn(rq, resp) ==
    IF rq.method = "deezer.getUserData"
    THEN UpdatedSession(resp.results, now) ELSE SessionOf

OwnResponse(t, resp) ==
    /\ Quiet
    /\ task[t].pc = "await_gw"
    /\ ~task[t].gw.nested
    /\ resp \in GwResponses(task[t].req)
    /\ resp.error = NoError

GwReturn(t) ==
    /\ task[t].op = "gw"
    /\ \E resp \in GwResponses(task[t].req) :
         /\ OwnResponse(t, resp)
         /\ SetSession(AfterOwn(task[t].req, resp))
         /\ task' = [task EXCEPT ![t] =
                       Return(GwReturned(@, resp.results), resp.results)]
    /\ UNCHANGED <<_arl, cookie, user_arl, now, ops, ticks, authed, decryptor,
                   out, download, last_user_data, tsc>>

\* The accounts user_auth.php knows by their email and password
Logins == {[email |-> "u@x", password |-> "good"],
           [email |-> "u@x", password |-> "bad"]}
ValidLogins == {[email |-> "u@x", password |-> "good"]}

HttpGet(url, params) ==
    [endpoint |-> url, method |-> "", api_token |-> "", cookie |-> "",
     payload |-> params]

\* user_auth.php answers with an error for a login it does not know
UserAuth(params) ==
    IF params \in ValidLogins THEN [access_token |-> "ok"]
    ELSE [error |-> "invalid login"]

HandshakeRejected_Never(data) == FALSE

\* "error" in data
HandshakeRejected(data) == "error" \in DOMAIN data

\* login_via_email up to its first request, for the anonymous session
EmailEnter(lg, email, password, s) ==
    LET rq == HttpGet("https://www.deezer.com", <<>>)
    IN [Begin("login_via_email",
              [NoArgs EXCEPT !.email = email, !.password = password])
          EXCEPT !.pc = "await_http", !.where = "home", !.req = rq,
                 !.sent = <<Sent(rq, FALSE)>>, !.pre = s, !.login = lg]

\* "if email and password"
HasPair_EmailOnly(email, password) == email # ""

HasPair(email, password) == email # "" /\ password # ""

\* The value ModuleInterface.login stores under "arl" once its attempt has
\* returned
SavedArl(tk, arl_token) ==
    IF tk.op = "login_via_email" THEN arl_token ELSE tk.login.arl

\* ModuleInterface.login from the end of a client login it awaited, tk, to
\* its next await or its end: it falls back to login_via_email when
\* login_via_arl raised ModuleAuthError and an email and a password were
\* given, lets any other exception through, and returns None once an
\* attempt has returned.
LoginAfter(tk, s) ==
    LET lg == tk.login
    IN IF ~lg.active THEN tk
       ELSE IF tk.result.status = "ModuleAuthError"
               /\ tk.op = "login_via_arl"
               /\ HasPair(lg.email, lg.password)
       THEN EmailEnter([lg EXCEPT !.tried = Append(@, "login_via_email")],
                       lg.email, lg.password, s)
       ELSE IF tk.result.status = "ok"
       THEN [Return(tk, <<>>) EXCEPT !.login.arl = SavedArl(tk, tk.args.arl)]
       ELSE tk

\* login_via_arl, called by the client or by login_via_email
InLoginArl(tk) ==
    \/ tk.op = "login_via_arl"
    \/ tk.op = "login_via_email" /\ tk.where = "login"

LoginArlReturn(t) ==
    /\ InLoginArl(task[t])
    /\ \E resp \in GwResponses(task[t].req) :
         /\ OwnResponse(t, resp)
         /\ SetSession(AfterOwn(task[t].req, resp))
         /\ authed' = (authed \/ ~LoginRejected(resp.results))
         /\ last_user_data' = resp.results
         /\ _arl' = ArlAfterLogin(resp.results, _arl)
         /\ cookie' = CookieAfterLogin(resp.results, cookie)
         /\ LET ended ==
                  IF LoginRejected(resp.results)
                  THEN Raise(GwReturned(task[t], resp.results),
                             "ModuleAuthError", "", <<>>)
                  ELSE Return(GwReturned(task[t], resp.results),
                              IF task[t].op = "login_via_email"
                              THEN [arl_token |-> task[t].args.arl,
                                    user_data |-> resp.results]
                              ELSE resp.results)
            IN /\ task' = [task EXCEPT ![t] =
                             LoginAfter(ended, AfterOwn(task[t].req, resp))]
               /\ tsc' = IF task[t].login.active /\ ended.result.status = "ok"
                         THEN [arl |-> SavedArl(task[t], task[t].args.arl)]
                         ELSE tsc
    /\ UNCHANGED <<user_arl, now, ops, ticks, decryptor, out, download>>

TrackUrlRefreshed(t) ==
    /\ task[t].op = "get_track_url"
    /\ task[t].where = "refresh"
    /\ \E resp \in GwResponses(task[t].req) :
         /\ OwnResponse(t, resp)
         /\ LET s1 == AfterOwn(task[t].req, resp)
            IN /\ SetSession(s1)
               /\ task' = [task EXCEPT ![t] =
                             TrackTokenStep(GwReturned(@, resp.results), s1,
                                            _arl, cookie)]
         /\ authed' = (authed \/ ~LoginRejected(resp.results))
         /\ last_user_data' = resp.results
    /\ UNCHANGED <<_arl, cookie, user_arl, now, ops, ticks, decryptor, out,
                   download, tsc>>

TrackUrlTokenFetched(t) ==
    /\ task[t].op = "get_track_url"
    /\ task[t].where = "track_token"
    /\ \E resp \in GwResponses(task[t].req) :
         /\ OwnResponse(t, resp)
         /\ SetSession(AfterOwn(task[t].req, resp))
         /\ task' = [task EXCEPT ![t] =
                       IF "TRACK_TOKEN" \in DOMAIN resp.results
                       THEN SendMedia([GwReturned(@, resp.results) EXCEPT
                                         !.track_token = resp.results.TRACK_TOKEN],
                                      SessionOf, cookie)
                       ELSE Raise(GwReturned(@, resp.results), "KeyError", "",
                                  <<"TRACK_TOKEN">>)]
    /\ UNCHANGED <<_arl, cookie, user_arl, now, ops, ticks, authed, decryptor,
                   out, download, last_user_data, tsc>>

\* ------------------------------------------------------------------------
\* DeezerApi.login_via_email
\* ------------------------------------------------------------------------
StartLoginEmail(t) ==
    /\ CanStart(t)
    /\ \E l \in Logins :
         task' = [task EXCEPT ![t] =
                    EmailEnter(NoLogin, l.email, l.password, SessionOf)]
    /\ ops' = ops + 1
    /\ UNCHANGED <<session_vars, _arl, cookie, user_arl, now, ticks, authed,
                   last_user_data, decryptor, out, download, tsc>>

\* The anonymous session cookie has been set: the login is sent
RecvHome(t) ==
    /\ Quiet
    /\ task[t].pc = "await_http"
    /\ task[t].where = "home"
    /\ LET rq == HttpGet("https://connect.deezer.com/oauth/user_auth.php",
                         [email |-> task[t].args.email,
                          password |-> task[t].args.password])
       IN task' = [task EXCEPT ![t] =
                     [@ EXCEPT !.where = "user_auth", !.req = rq,
                               !.sent = Append(@, Sent(rq, FALSE))]]
    /\ UNCHANGED <<session_vars, _arl, cookie, user_arl, now, ops, ticks,
                   authed, last_user_data, decryptor, out, download, tsc>>

RecvUserAuth(t) ==
    /\ Quiet
    /\ task[t].pc = "await_http"
    /\ task[t].where = "user_auth"
    /\ LET data == UserAuth(task[t].req.payload)
       IN task' = [task EXCEPT ![t] =
                     IF HandshakeRejected(data)
                     THEN Raise(@, "ModuleAuthError", "", <<>>)
                     ELSE GwEnter([@ EXCEPT !.where = "get_arl"],
                                  "user.getArl", <<>>, SessionOf, _arl,
                                  cookie)]
    /\ UNCHANGED <<session_vars, _arl, cookie, user_arl, now, ops, ticks,
                   authed, last_user_data, decryptor, out, download, tsc>>

\* user.getArl has returned the credential: login_via_arl is called with it
EmailArlFetched(t) ==
    /\ task[t].op = "login_via_email"
    /\ task[t].where = "get_arl"
    /\ \E resp \in GwResponses(task[t].req) :
         /\ OwnResponse(t, resp)
         /\ LET arl_token == resp.results
                s1 == AfterOwn(task[t].req, resp)
            IN /\ SetSession(s1)
               /\ _arl' = arl_token
               /\ cookie' = arl_token
               /\ task' = [task EXCEPT ![t] =
                             GwEnter([GwReturned(@, resp.results) EXCEPT
                                        !.where = "login",
                                        !.args.arl = arl_token],
                                     "deezer.getUserData", <<>>, s1,
                                     arl_token, arl_token)]
    /\ UNCHANGED <<user_arl, now, ops, ticks, authed, last_user_data,
                   decryptor, out, download, tsc>>

\* ------------------------------------------------------------------------
\* ModuleInterface.login
\* ------------------------------------------------------------------------
\* The email and password the caller passes, either of which may be empty
LoginInputs ==
    Logins \cup {[email |-> "", password |-> ""],
                 [email |-> "u@x", password |-> ""],
                 [email |-> "", password |-> "good"]}

\* login up to its first await, or to its end when there is nothing to try
StartLogin(t) ==
    /\ CanStart(t)
    /\ \E l \in LoginInputs :
         LET arl == user_arl
             lg == [active |-> TRUE, email |-> l.email,
                    password |-> l.password, arl |-> arl, tried |-> <<>>]
         IN IF arl # ""
            THEN /\ _arl' = arl
                 /\ cookie' = arl
                 /\ task' = [task EXCEPT ![t] =
                       GwEnter([Begin("login_via_arl",
                                      [NoArgs EXCEPT !.arl = arl])
                                  EXCEPT !.login =
                                    [lg EXCEPT !.tried = <<"login_via_arl">>]],
                               "deezer.getUserData", <<>>, SessionOf, arl,
                               arl)]
            ELSE /\ UNCHANGED <<_arl, cookie>>
                 /\ task' = [task EXCEPT ![t] =
                       IF HasPair(l.email, l.password)
                       THEN EmailEnter(
                              [lg EXCEPT !.tried = <<"login_via_email">>],
                              l.email, l.password, SessionOf)
                       ELSE Raise([Begin("login", NoArgs) EXCEPT !.login = lg],
                                  "ModuleAuthError", "", <<>>)]
    /\ ops' = ops + 1
    /\ UNCHANGED <<session_vars, user_arl, now, ticks, authed, last_user_data,
                   decryptor, out, download, tsc>>

\* ------------------------------------------------------------------------
\* The media negotiation response
\* ------------------------------------------------------------------------
MediaData(shape) ==
    CASE shape = "ok" ->
           [data |-> <<[media |-> <<[sources |-> <<[url |-> "U1"]>>]>>]>>]
      [] shape = "no_data" -> [errors |-> <<"unavailable">>]
      [] shape = "empty_data" -> [data |-> <<>>]
      [] shape = "empty_media" -> [data |-> <<[media |-> <<>>]>>]
      [] shape = "empty_sources" ->
           [data |-> <<[media |-> <<[sources |-> <<>>]>>]>>]

\* data["data"][0]["media"][0]["sources"][0]["url"]
MediaUrl(data) ==
    IF "data" \notin DOMAIN data THEN [status |-> "KeyError", value |-> "data"]
    ELSE IF Len(data.data) = 0 THEN [status |-> "IndexError", value |-> "data"]
    ELSE IF Len(data.data[1].media) = 0
         THEN [status |-> "IndexError", value |-> "media"]
    ELSE IF Len(data.data[1].media[1].sources) = 0
         THEN [status |-> "IndexError", value |-> "sources"]
    ELSE [status |-> "ok", value |-> data.data[1].media[1].sources[1].url]

RecvMedia(t) ==
    /\ Quiet
    /\ task[t].pc = "await_media"
    /\ \E shape \in MediaShapes :
         LET r == MediaUrl(MediaData(shape))
         IN task' = [task EXCEPT ![t] =
                       IF r.status = "ok"
                       THEN [Return(@, r.value) EXCEPT !.media = shape]
                       ELSE [Raise(@, r.status, "", <<r.value>>)
                               EXCEPT !.media = shape]]
    /\ UNCHANGED <<session_vars, _arl, cookie, user_arl, now, ops, ticks,
                   authed, decryptor, out, download, last_user_data, tsc>>

\* ------------------------------------------------------------------------
\* DeezerApi._create_blowfish_decryptor and its process_chunk
\* ------------------------------------------------------------------------
ChunkSizeRejected(chunk_size) == chunk_size % block_size # 0

CreateBlowfishDecryptor(chunk_size) ==
    IF ChunkSizeRejected(chunk_size)
    THEN [status |-> "ValueError", chunk_size |-> chunk_size,
          blocks_per_chunk |-> 0]
    ELSE [status |-> "ok", chunk_size |-> chunk_size,
          blocks_per_chunk |-> chunk_size \div block_size]

Min(a, b) == IF a < b THEN a ELSE b

DecryptsBlock_AnyLength(block_index, block_len) == block_index % 3 = 0

\* Decrypt every third block, when it is a whole block
DecryptsBlock(block_index, block_len) ==
    block_index % 3 = 0 /\ block_len = block_size

\* The windows of a chunk of len bytes, from byte i on: where each starts,
\* how long it is, its absolute block index and whether it is decrypted.
RECURSIVE Windows(_, _, _, _)
Windows(len, i, base_block_index, result) ==
    IF i >= len THEN result
    ELSE LET block_len == Min(block_size, len - i)
             block_index == base_block_index + (i \div block_size)
         IN Windows(len, i + block_size, base_block_index,
                    Append(result,
                           [offset |-> i, len |-> block_len,
                            block_index |-> block_index,
                            decrypted |-> DecryptsBlock(block_index,
                                                        block_len)]))

process_chunk_NoBase(d, len, chunk_index) == Windows(len, 0, 0, <<>>)

process_chunk(d, len, chunk_index) ==
    Windows(len, 0, chunk_index * d.blocks_per_chunk, <<>>)

CreateDecryptor ==
    /\ \E chunk_size \in ChunkSizes :
         decryptor' = CreateBlowfishDecryptor(chunk_size)
    /\ out' = <<>>
    /\ UNCHANGED <<session_vars, _arl, cookie, user_arl, now, task, ops,
                   ticks, authed, download, last_user_data, tsc>>

\* download_file hands over chunks of at most chunk_size bytes
ProcessChunk ==
    /\ decryptor.status = "ok"
    /\ \E len \in ChunkLens, chunk_index \in 0..MaxChunkIndex :
         /\ len <= decryptor.chunk_size
         /\ out' = [chunk_index |-> chunk_index, len |-> len,
                    windows |-> process_chunk(decryptor, len, chunk_index)]
    /\ UNCHANGED <<session_vars, _arl, cookie, user_arl, now, task, ops,
                   ticks, authed, decryptor, download, last_user_data, tsc>>

\* ------------------------------------------------------------------------
\* ModuleInterface.get_track_info and get_track_download
\* ------------------------------------------------------------------------
quality_map == [MINIMUM |-> "MP3_128", LOW |-> "MP3_128",
                MEDIUM |-> "MP3_320", HIGH |-> "MP3_320",
                LOSSLESS |-> "FLAC", HIFI |-> "FLAC"]
QualityTiers == {"LOW", "HIGH", "LOSSLESS"}
InfoTrackIds == {"7", "-7"}
\* int(track_id)
IntOf == [id \in InfoTrackIds \cup {"1"} |->
            IF id = "7" THEN 7 ELSE IF id = "-7" THEN -7 ELSE 1]

formats_priority == <<"FLAC", "MP3_320", "MP3_128">>
filesize_key == [FLAC |-> "FILESIZE_FLAC", MP3_320 |-> "FILESIZE_MP3_320",
                 MP3_128 |-> "FILESIZE_MP3_128"]

\* d.get(key, default)
Get(d, key, default) == IF key \in DOMAIN d THEN d[key] ELSE default

RECURSIVE FirstWithFile(_, _)
FirstWithFile(track_data, i) ==
    IF i > Len(formats_priority) THEN <<>>
    ELSE IF Get(track_data, filesize_key[formats_priority[i]], "0") # "0"
         THEN <<formats_priority[i]>>
         ELSE FirstWithFile(track_data, i + 1)

\* The search starts at target_format, or at the top when target_format is
\* not in formats_priority (ValueError); <<>> is None.
_find_available_format(track_data, target_format) ==
    LET found == {i \in 1..Len(formats_priority) :
                    formats_priority[i] = target_format}
        start_idx == IF found = {} THEN 1 ELSE CHOOSE i \in found : TRUE
    IN FirstWithFile(track_data, start_idx)

NotEntitled_Never(final_format, formats) == FALSE

NotEntitled(final_format, formats) ==
    \A i \in 1..Len(formats) : formats[i] # final_format

\* The format of the ticket and the error, <<>> for None
_check_track_availability(t_data, audio_format, is_user_uploaded, c, formats) ==
    IF is_user_uploaded
    THEN [final_format |-> audio_format,
          error |-> IF Get(Get(t_data, "RIGHTS", <<>>),
                           "STREAM_ADS_AVAILABLE", FALSE)
                    THEN <<>>
                    ELSE <<"Cannot download track uploaded by another user">>]
    ELSE LET available_format == _find_available_format(t_data, audio_format)
             final_format == IF available_format # <<>>
                             THEN available_format[1] ELSE "MP3_128"
             countries == Get(Get(t_data, "AVAILABLE_COUNTRIES", <<>>),
                              "STREAM_ADS", <<>>)
         IN [final_format |-> final_format,
             error |->
               IF countries # <<>>
                  /\ \A i \in 1..Len(countries) : countries[i] # c
               THEN <<"Track not available in", c>>
               ELSE IF NotEntitled(final_format, formats)
               THEN <<"Format", final_format,
                      "not available with your subscription">>
               ELSE <<>>]

codec_map == [MP3_MISC |-> "MP3", MP3_128 |-> "MP3", MP3_320 |-> "MP3",
              FLAC |-> "FLAC"]

\* The TrackInfo get_track_info returns
TrackInfoOf(info) ==
    [name |-> Get(info.t_data, "SNG_TITLE", ""),
     codec |-> Get(codec_map, info.audio_format, "MP3"),
     download_data |->
       [track_id |-> info.t_data.SNG_ID,
        track_token |-> Get(info.t_data, "TRACK_TOKEN", ""),
        track_token_expiry |-> Get(info.t_data, "TRACK_TOKEN_EXPIRE", 0),
        format |-> info.audio_format],
     error |-> info.error]

\* get_track_info up to its first request, data being empty
StartTrackInfo(t) ==
    /\ CanStart(t)
    /\ \E track_id \in InfoTrackIds, quality_tier \in QualityTiers :
         LET is_user_uploaded == IntOf[track_id] < 0
             audio_format == IF ~is_user_uploaded
                             THEN quality_map[quality_tier] ELSE "MP3_MISC"
             tk == [Begin("get_track_info", NoArgs) EXCEPT
                      !.where = "track_data",
                      !.info = [NoInfo EXCEPT
                                  !.track_id = track_id,
                                  !.quality_tier = quality_tier,
                                  !.is_user_uploaded = is_user_uploaded,
                                  !.requested = audio_format]]
         IN task' = [task EXCEPT ![t] =
                       GwEnter(tk,
                               IF is_user_uploaded THEN "song.getData"
                               ELSE "deezer.pageTrack",
                               [sng_id |-> track_id], SessionOf, _arl, cookie)]
    /\ ops' = ops + 1
    /\ UNCHANGED <<session_vars, _arl, cookie, user_arl, now, ticks, authed,
                   last_user_data, decryptor, out, download, tsc>>

\* The track data has arrived: the availability is checked, and the lyrics
\* of a catalogue track are fetched with a second deezer.pageTrack.
TrackInfoChecked(t) ==
    /\ task[t].op = "get_track_info"
    /\ task[t].where = "track_data"
    /\ \E resp \in GwResponses(task[t].req) :
         /\ OwnResponse(t, resp)
         /\ SetSession(AfterOwn(task[t].req, resp))
         /\ LET info == task[t].info
                track == resp.results
                t_data0 == IF ~info.is_user_uploaded
                           THEN Get(track, "DATA", track) ELSE track
                t_data == IF "FALLBACK" \in DOMAIN t_data0
                          THEN t_data0.FALLBACK ELSE t_data0
                avail == _check_track_availability(
                             t_data, info.requested, info.is_user_uploaded,
                             country, available_formats)
                tk == [GwReturned(task[t], resp.results) EXCEPT
                         !.info.t_data = t_data,
                         !.info.audio_format = avail.final_format,
                         !.info.error = avail.error,
                         !.info.checked =
                            [country |-> country,
                             available_formats |-> available_formats]]
            IN task' = [task EXCEPT ![t] =
                          IF info.is_user_uploaded
                          THEN Return(tk, TrackInfoOf(tk.info))
                          ELSE GwEnter([tk EXCEPT !.where = "lyrics"],
                                       "deezer.pageTrack",
                                       [sng_id |-> info.track_id],
                                       SessionOf, _arl, cookie)]
    /\ UNCHANGED <<_arl, cookie, user_arl, now, ops, ticks, authed,
                   last_user_data, decryptor, out, download, tsc>>

TrackInfoReturn(t) ==
    /\ task[t].op = "get_track_info"
    /\ task[t].where = "lyrics"
    /\ \E resp \in GwResponses(task[t].req) :
         /\ OwnResponse(t, resp)
         /\ SetSession(AfterOwn(task[t].req, resp))
         /\ task' = [task EXCEPT ![t] =
                       Return(GwReturned(@, resp.results),
                              TrackInfoOf(task[t].info))]
    /\ UNCHANGED <<_arl, cookie, user_arl, now, ops, ticks, authed,
                   last_user_data, decryptor, out, download, tsc>>

\* The caller hands the download_data of the TrackInfo it got to
\* get_track_download, which resolves the stream URL.
CallTrackDownload(t) ==
    /\ task[t].pc = "done"
    /\ task[t].op = "get_track_info"
    /\ task[t].result.status = "ok"
    /\ ops < MaxOps
    /\ LET data == task[t].result.value.download_data
       IN task' = [task EXCEPT ![t] =
                     TrackUrlEnter(
                       [Begin("get_track_url",
                              [NoArgs EXCEPT
                                 !.track_token = data.track_token,
                                 !.track_token_expiry = data.track_token_expiry,
                                 !.audio_format = data.format])
                          EXCEPT !.info = task[t].info])]
    /\ ops' = ops + 1
    /\ UNCHANGED <<session_vars, _arl, cookie, user_arl, now, ticks, authed,
                   last_user_data, decryptor, out, download, tsc>>

\* ------------------------------------------------------------------------
\* DeezerApi.download_and_decrypt_track
\* ------------------------------------------------------------------------
\* get_blowfish_key: the key is a function of the track identifier
get_blowfish_key(track_id) == <<"bf", track_id>>

\* The key a chunk processor decrypts with: the one its closure captured
ChunkKey_Shared(dl, id) == dl[1].bf_key

ChunkKey(dl, id) == dl[id].bf_key

\* The blocks a call of the chunk processor writes, placed in the stream:
\* where each starts, how long it is and the key it was decrypted with
\* (none when it is written as received).
RECURSIVE Written(_, _, _, _, _)
Written(windows, i, start, bf_key, result) ==
    IF i > Len(windows) THEN result
    ELSE Written(windows, i + 1, start, bf_key,
                 Append(result,
                        [offset |-> start + windows[i].offset,
                         len |-> windows[i].len,
                         by |-> IF windows[i].decrypted THEN bf_key
                                ELSE <<>>]))

StartDownload(id) ==
    /\ download[id].state = "none"
    /\ \A j \in Downloads : j < id => download[j].state # "none"
    /\ \E track_id \in TrackIds, len \in StreamLens,
          chunk_size \in StreamChunkSizes :
         LET d == CreateBlowfishDecryptor(chunk_size)
         IN download' = [download EXCEPT ![id] =
                [NoDownload EXCEPT
                   !.state = IF d.status = "ok" THEN "streaming" ELSE d.status,
                   !.track_id = track_id,
                   !.bf_key = get_blowfish_key(track_id),
                   !.chunk_size = chunk_size,
                   !.blocks_per_chunk = d.blocks_per_chunk,
                   !.len = len]]
    /\ UNCHANGED <<session_vars, _arl, cookie, user_arl, now, task, ops,
                   ticks, authed, decryptor, out, last_user_data, tsc>>

\* The sizes of the next chunk the transport can hand over: whole blocks,
\* no more than chunk_size bytes, or all that is left of the stream.
ChunkCuts(left, chunk_size) ==
    {k * block_size : k \in 1..(Min(left, chunk_size) \div block_size)}
    \cup (IF left <= chunk_size THEN {left} ELSE {})

\* download_file reads the next chunk, passes it with its index through the
\* chunk processor and writes the result.
DeliverChunk(id) ==
    /\ download[id].state = "streaming"
    /\ LET dl == download[id]
       IN \E n \in ChunkCuts(dl.len - dl.pos, dl.chunk_size) :
            download' = [download EXCEPT ![id] =
              [dl EXCEPT
                 !.pos = @ + n,
                 !.chunk_index = @ + 1,
                 !.chunks = Append(@, n),
                 !.output = @ \o Written(process_chunk(dl, n, dl.chunk_index),
                                         1, dl.pos, ChunkKey(download, id),
                                         <<>>),
                 !.state = IF dl.pos + n = dl.len THEN "complete"
                           ELSE "streaming"]]
    /\ UNCHANGED <<session_vars, _arl, cookie, user_arl, now, task, ops,
                   ticks, authed, decryptor, out, last_user_data, tsc>>

\* ------------------------------------------------------------------------
\* Specifications
\* ------------------------------------------------------------------------
\* The caller awaits each operation before it starts the next
Serial == \A t \in Tasks : task[t].pc = "idle"

CallGw(t) == Serial /\ StartGw(t)

CallLoginArl(t) == Serial /\ StartLoginArl(t)

CallTrackUrl(t) == Serial /\ StartTrackUrl(t)

CallLoginEmail(t) == Serial /\ StartLoginEmail(t)

Next ==
    \/ Tick
    \/ \E t \in Tasks : CallGw(t)
    \/ \E t \in Tasks : CallLoginArl(t)
    \/ \E t \in Tasks : CallLoginEmail(t)
    \/ \E t \in Tasks : RecvHome(t)
    \/ \E t \in Tasks : RecvUserAuth(t)
    \/ \E t \in Tasks : EmailArlFetched(t)
    \/ \E t \in Tasks : CallTrackUrl(t)
    \/ \E t \in Tasks : RecvGwError(t)
    \/ \E t \in Tasks : RecvRelogin(t)
    \/ \E t \in Tasks : GwReturn(t)
    \/ \E t \in Tasks : LoginArlReturn(t)
    \/ \E t \in Tasks : TrackUrlRefreshed(t)
    \/ \E t \in Tasks : TrackUrlTokenFetched(t)
    \/ \E t \in Tasks : RecvMedia(t)
    \/ \E t \in Tasks : Finish(t)

\* The client used as section 5 of the design asks: one operation at a time
Spec == Init /\ [][Next]_vars

\* Every coroutine runs one operation
OneEach == ops < Cardinality(Tasks)

SpawnGw(t) == OneEach /\ StartGw(t)

SpawnLoginArl(t) == OneEach /\ StartLoginArl(t)

SpawnTrackUrl(t) == OneEach /\ StartTrackUrl(t)

NextConc ==
    \/ Tick
    \/ \E t \in Tasks : SpawnGw(t)
    \/ \E t \in Tasks : SpawnLoginArl(t)
    \/ \E t \in Tasks : SpawnTrackUrl(t)
    \/ \E t \in Tasks : RecvGwError(t)
    \/ \E t \in Tasks : RecvRelogin(t)
    \/ \E t \in Tasks : GwReturn(t)
    \/ \E t \in Tasks : LoginArlReturn(t)
    \/ \E t \in Tasks : TrackUrlRefreshed(t)
    \/ \E t \in Tasks : TrackUrlTokenFetched(t)
    \/ \E t \in Tasks : RecvMedia(t)
    \/ \E t \in Tasks : Finish(t)

\* The client with its operations running concurrently, interleaved at
\* their awaits
SpecConc == Init /\ [][NextConc]_vars

NextDecrypt ==
    \/ CreateDecryptor
    \/ ProcessChunk

\* The chunk processor alone
SpecDecrypt == Init /\ [][NextDecrypt]_vars

CallTrackInfo(t) == Serial /\ StartTrackInfo(t)

NextInfo ==
    \/ Tick
    \/ \E t \in Tasks : CallLoginArl(t)
    \/ \E t \in Tasks : CallTrackInfo(t)
    \/ \E t \in Tasks : RecvGwError(t)
    \/ \E t \in Tasks : RecvRelogin(t)
    \/ \E t \in Tasks : LoginArlReturn(t)
    \/ \E t \in Tasks : TrackInfoChecked(t)
    \/ \E t \in Tasks : TrackInfoReturn(t)
    \/ \E t \in Tasks : CallTrackDownload(t)
    \/ \E t \in Tasks : TrackUrlRefreshed(t)
    \/ \E t \in Tasks : TrackUrlTokenFetched(t)
    \/ \E t \in Tasks : RecvMedia(t)
    \/ \E t \in Tasks : Finish(t)

\* The client asked for the information of a track and then for its
\* download, one operation at a time
SpecInfo == Init /\ [][NextInfo]_vars

CallLogin(t) == Serial /\ StartLogin(t)

NextLogin ==
    \/ \E t \in Tasks : CallLogin(t)
    \/ \E t \in Tasks : CallGw(t)
    \/ \E t \in Tasks : RecvHome(t)
    \/ \E t \in Tasks : RecvUserAuth(t)
    \/ \E t \in Tasks : EmailArlFetched(t)
    \/ \E t \in Tasks : RecvGwError(t)
    \/ \E t \in Tasks : RecvRelogin(t)
    \/ \E t \in Tasks : GwReturn(t)
    \/ \E t \in Tasks : LoginArlReturn(t)
    \/ \E t \in Tasks : Finish(t)

\* The module logs in, and fetches track data before or after, one
\* operation at a time
SpecLogin == Init /\ [][NextLogin]_vars

NextStream ==
    \/ \E id \in Downloads : StartDownload(id)
    \/ \E id \in Downloads : DeliverChunk(id)

\* Downloads running concurrently, interleaved at their chunk reads
SpecStream == Init /\ [][NextStream]_vars

\* ------------------------------------------------------------------------
\* Properties
\* ------------------------------------------------------------------------
IsGw(e, m) == e.req.endpoint = "GW_LIGHT_URL" /\ e.req.method = m
IsMedia(e) == e.req.endpoint = "MEDIA_URL"
Positions(seq, P(_)) == {i \in 1..Len(seq) : P(seq[i])}
IsBootstrap(rq) == rq.method = "deezer.getUserData"
IsRefresh(e) == IsGw(e, "deezer.getUserData") /\ ~e.nested
IsRelogin(e) == IsGw(e, "deezer.getUserData") /\ e.nested
IsSongData(e) == IsGw(e, "song.getData")
AuthError(t) == task[t].pc = "done" /\ task[t].result.status = "ModuleAuthError"
\* A gateway call to a non-bootstrap method that found the token empty
ReloginCase(g) ==
    g.method # "" /\ g.method \notin AuthMethods /\ g.entry_token = ""

\* C1: a gateway call to a non-bootstrap method that finds authToken empty
\* and a valid credential stored sends exactly one deezer.getUserData
\* request, first; its own request follows and carries the non-empty token
\* of that bootstrap response; the call returns unless the service answers
\* one of the two requests with an error envelope.
C1_AutoRelogin ==
    \A t \in Tasks :
      LET g == task[t].gw
      IN (ReloginCase(g) /\ g.entry_arl \in ValidArls) =>
           /\ IsBootstrap(g.reqs[1])
           /\ Cardinality(Positions(g.reqs, IsBootstrap)) = 1
           /\ g.state = "boot" => Len(g.reqs) = 1
           /\ g.state # "boot" /\ g.boot # <<>> =>
                /\ Len(g.reqs) = 2
                /\ g.reqs[2].method = g.method
                /\ g.reqs[2].api_token = g.boot.checkForm
                /\ g.reqs[2].api_token # ""
           /\ g.state = "returned" => Len(g.reqs) = 2
           /\ g.state = "raised" =>
                task[t].result.status = "ModuleAPIError"

C1_Witness ==
    \E t \in Tasks :
      /\ ReloginCase(task[t].gw)
      /\ task[t].gw.entry_arl \in ValidArls
      /\ task[t].gw.state = "returned"
      /\ task[t].op = "gw"
      /\ task[t].result.status = "ok"

\* C2: when the bootstrap of an auto-relogin answers without a user
\* identifier, the call's own request is not sent and the call ends with
\* ModuleAuthError.
C2_InvalidCredentialFails ==
    \A t \in Tasks :
      LET g == task[t].gw
      IN (ReloginCase(g) /\ g.boot # <<>> /\ g.boot.USER.USER_ID = 0) =>
           /\ Len(g.reqs) = 1
           /\ AuthError(t)

\* C3: when the bootstrap of an auto-relogin leaves api_token empty, the
\* outer call ends with ModuleAuthError and sends no request of its own.
C3_SecondEmptyTokenFatal ==
    \A t \in Tasks :
      LET g == task[t].gw
      IN (ReloginCase(g) /\ g.boot # <<>> /\ g.boot.checkForm = "") =>
           /\ Positions(g.reqs, LAMBDA rq : rq.method = g.method) = {}
           /\ AuthError(t)

\* C4: api_token is empty exactly when no authentication has succeeded, and
\* a login that ended in ModuleAuthError has not made it non-empty.
C4_TokenIffAuthenticated ==
    (api_token = "") <=> ~authed

LoginFails(t) ==
    /\ task[t].op = "login_via_arl"
    /\ task[t].pc = "await_gw"
    /\ task'[t].pc = "done"
    /\ task'[t].result.status = "ModuleAuthError"

StartsRelogin(t) ==
    /\ task'[t].gw.state = "boot"
    /\ task'[t].gw # task[t].gw

\* C5: the step in which login_via_arl raises ModuleAuthError (the bootstrap
\* answered without a user identifier) leaves the stored credential empty
\* and the cookie cleared, and every auto-relogin starts from a stored,
\* non-empty credential, the one its bootstrap request carries.
C5_CredentialDiscarded ==
    [][\A t \in Tasks :
         /\ LoginFails(t) =>
              /\ task[t].gw.state = "own"
              /\ _arl' = "" /\ cookie' = ""
         /\ task'[t].pc = "done" /\ task[t].pc = "await_gw"
            /\ task[t].op = "login_via_arl" /\ ~task[t].gw.nested
            /\ task'[t].gw.state = "returned"
            /\ task'[t].gw.results.USER.USER_ID = 0 => LoginFails(t)
         /\ StartsRelogin(t) =>
              /\ _arl # "" /\ _arl' = _arl
              /\ task'[t].req.cookie = _arl]_vars

C5_Witness ==
    \E t \in Tasks :
      /\ task[t].op = "login_via_arl"
      /\ AuthError(t)
      /\ task[t].args.arl # ""
      /\ _arl = "" /\ cookie = ""

\* C6: the step in which login_via_arl raises ModuleAuthError leaves every
\* session field at the value it had when the login was called.
C6_FailedLoginNotHalfApplied ==
    [][\A t \in Tasks : LoginFails(t) => SessionOf' = task[t].pre]_vars

UrlTask(t) == task[t].op = "get_track_url"
\* now - tokenIssuedAt when get_track_url was called
AgeAtCall(t) == task[t].renew_now - task[t].pre.renew_timestamp
Stale(t) == AgeAtCall(t) >= RenewThreshold * TicksPerSec
MediaSent(t) == Positions(task[t].sent, IsMedia) # {}

\* C7 as claimed: a resolution called at an age of 3600 seconds or more
\* sends exactly one deezer.getUserData request, before the media request;
\* one called at a smaller age sends none.
C7_ExactlyOneBootstrap ==
    \A t \in Tasks :
      UrlTask(t) =>
        LET boots == Positions(task[t].sent,
                               LAMBDA e : IsGw(e, "deezer.getUserData"))
        IN /\ Stale(t) => boots = {1}
           /\ ~Stale(t) => boots = {}

\* C7 amended: a resolution called at an age of 3600 seconds or more sends
\* exactly one refresh, as its first request; one called at a smaller age
\* sends no refresh; any other deezer.getUserData request of a resolution
\* is the one auto-relogin of its song.getData call, sent right before that
\* call's own request when api_token was empty with a credential stored;
\* the media request comes last.
C7_RefreshThreshold ==
    \A t \in Tasks :
      UrlTask(t) =>
        LET sent == task[t].sent
            relogins == Positions(sent, IsRelogin)
        IN /\ Positions(sent, IsRefresh) = IF Stale(t) THEN {1} ELSE {}
           /\ Cardinality(relogins) <= 1
           /\ \A i \in relogins :
                /\ task[t].gw.method = "song.getData"
                /\ task[t].gw.entry_token = ""
                /\ task[t].gw.entry_arl # ""
                /\ i < Len(sent) => IsSongData(sent[i + 1])
           /\ \A i \in Positions(sent, IsMedia) : i = Len(sent)

\* A resolution called exactly 3600 seconds after the last bootstrap has
\* sent its refresh and then its media request.
C7_Witness ==
    \E t \in Tasks :
      /\ UrlTask(t) /\ MediaSent(t)
      /\ task[t].pre.renew_timestamp > 0
      /\ AgeAtCall(t) = RenewThreshold * TicksPerSec
      /\ Positions(task[t].sent, IsRefresh) = {1}

\* C8: once get_track_url has tested the expiry, it has entered a
\* song.getData call scoped to TRACK_TOKEN exactly when the clock was at or
\* past track_token_expiry; that call sends one song.getData request and the
\* media request carries the token of its answer; otherwise no song.getData
\* request is sent and the media request carries the token of the caller.
C8_TrackTokenRefresh ==
    \A t \in Tasks :
      UrlTask(t) =>
        LET tk == task[t]
            songs == Positions(tk.sent, IsSongData)
            medias == Positions(tk.sent, IsMedia)
            due == tk.expiry_now >= tk.args.track_token_expiry
        IN IF tk.expiry_now = -1 THEN songs = {} /\ medias = {}
           ELSE IF due
           THEN /\ tk.gw.method = "song.getData"
                /\ tk.gw.payload.array_default = <<"TRACK_TOKEN">>
                /\ Cardinality(songs) = IF tk.gw.state = "boot" \/
                                           (tk.gw.state = "raised"
                                            /\ Len(tk.gw.reqs) = 1
                                            /\ tk.gw.relogin)
                                        THEN 0 ELSE 1
                /\ \A i \in songs :
                     tk.sent[i].req.payload.array_default = <<"TRACK_TOKEN">>
                /\ \A i \in medias :
                     /\ Cardinality(songs) = 1
                     /\ tk.sent[i].req.payload.track_tokens =
                          <<tk.gw.results.TRACK_TOKEN>>
           ELSE /\ songs = {}
                /\ medias # {}
                /\ \A i \in medias :
                     tk.sent[i].req.payload.track_tokens =
                       <<tk.args.track_token>>

\* A resolution that tested the expiry at the very instant of expiry has
\* fetched a token and sent it in its media request.
C8_Witness ==
    \E t \in Tasks :
      /\ UrlTask(t) /\ MediaSent(t)
      /\ task[t].expiry_now = task[t].args.track_token_expiry
      /\ task[t].args.track_token = "K1"
      /\ task[t].track_token = "K2"
      /\ task[t].req.payload.track_tokens = <<"K2">>

\* C9: a media response without a candidate (no data, empty data, empty
\* media or empty sources) ends get_track_url with ModuleAPIError.
C9_NoCandidateIsApiError ==
    \A t \in Tasks :
      (UrlTask(t) /\ task[t].media \in MediaShapes \ {"ok"}) =>
        /\ task[t].pc = "done"
        /\ task[t].result.status = "ModuleAPIError"

\* C10: creating the chunk processor fails for exactly the chunk sizes that
\* are not a positive multiple of 2048.
C10_ChunkSizeValidated ==
    decryptor.status # "none" =>
      (decryptor.status = "ValueError" <=>
         ~(decryptor.chunk_size > 0
           /\ decryptor.chunk_size % block_size = 0))

\* What a download writes when its stream is processed as one single chunk
SingleChunk(dl) ==
    Written(process_chunk(dl, dl.len, 0), 1, 0, dl.bf_key, <<>>)

\* Every chunk but the last has exactly the chunk_size of the processor
FixedSizeChunks(dl) ==
    \A i \in 1..(Len(dl.chunks) - 1) : dl.chunks[i] = dl.chunk_size

\* C11 as claimed: however the stream of a download is split into chunks
\* of whole blocks, numbered 0, 1, 2, ..., the blocks written are those
\* written when the stream is processed as one single chunk.
C11_ChunkBoundaryIndependent ==
    \A id \in Downloads :
      download[id].state = "complete" =>
        download[id].output = SingleChunk(download[id])

\* C11 amended: when every chunk but the last has exactly chunk_size bytes,
\* whatever multiple of 2048 chunk_size is, the blocks written are those
\* written when the stream is processed as one single chunk.
C11_FixedSizeChunkIndependent ==
    \A id \in Downloads :
      (download[id].state = "complete" /\ FixedSizeChunks(download[id])) =>
        download[id].output = SingleChunk(download[id])

\* A stream cut into several chunks of two blocks each, whose second chunk
\* holds a decrypted block.
C11_Witness ==
    \E id \in Downloads :
      LET dl == download[id]
      IN /\ dl.state = "complete" /\ FixedSizeChunks(dl)
         /\ dl.chunk_size = 2 * block_size
         /\ Len(dl.chunks) >= 2
         /\ \E k \in 1..Len(dl.output) :
              dl.output[k].offset >= dl.chunk_size /\ dl.output[k].by # <<>>

\* C12: the output of process_chunk has the windows of its input, in
\* order and of the same lengths, and a window is decrypted exactly when it
\* has 2048 bytes and chunk_index * (chunk_size / 2048) plus its position is
\* divisible by 3.
C12_SelectiveDecryption ==
    out # <<>> =>
      LET w == out.windows
          chunkOffsetInBlocks ==
              out.chunk_index * (decryptor.chunk_size \div block_size)
      IN /\ Len(w) = (out.len + block_size - 1) \div block_size
         /\ \A k \in 1..Len(w) :
              /\ w[k].offset = (k - 1) * block_size
              /\ w[k].len = Min(block_size, out.len - (k - 1) * block_size)
              /\ w[k].decrypted <=>
                    /\ w[k].len = block_size
                    /\ (chunkOffsetInBlocks + (k - 1)) % 3 = 0

\* A chunk whose first window is decrypted and whose last window is short
\* at an index divisible by 3, and left as received.
C12_Witness ==
    /\ out # <<>>
    /\ Len(out.windows) = 4
    /\ out.windows[1].decrypted
    /\ out.windows[4].block_index % 3 = 0
    /\ out.windows[4].len < block_size
    /\ ~out.windows[4].decrypted

\* What a download writes when it runs alone: its chunks, in order, through
\* a chunk processor of its own key
RECURSIVE Alone(_, _, _, _)
Alone(dl, i, pos, result) ==
    IF i > Len(dl.chunks) THEN result
    ELSE Alone(dl, i + 1, pos + dl.chunks[i],
               result \o Written(process_chunk(dl, dl.chunks[i], i - 1), 1,
                                 pos, get_blowfish_key(dl.track_id), <<>>))

\* C18: whatever the interleaving of the chunk calls of the downloads, each
\* download has written what it writes when it runs alone, which depends
\* only on its key, its chunks and their indices.
C18_StatelessProcessor ==
    \A id \in Downloads :
      download[id].output = Alone(download[id], 1, 0, <<>>)

\* Two downloads of different tracks, both in the middle of their streams,
\* each with a block decrypted under its own key.
C18_Witness ==
    /\ download[1].track_id # download[2].track_id
    /\ \A id \in Downloads :
         /\ download[id].state = "streaming"
         /\ download[id].chunk_index >= 1
         /\ \E k \in 1..Len(download[id].output) :
              download[id].output[k].by = get_blowfish_key(download[id].track_id)

SetOf(seq) == {seq[i] : i \in 1..Len(seq)}

\* The formats the entitlement flags of a bootstrap response grant
Granted(user_data) ==
    {"MP3_128"}
    \cup (IF user_data.USER.OPTIONS.web_hq THEN {"MP3_320"} ELSE {})
    \cup (IF user_data.USER.OPTIONS.web_lossless THEN {"FLAC"} ELSE {})

\* C13: available_formats always holds MP3_128, and once a bootstrap
\* response has been processed it holds, each once, exactly the formats the
\* flags of the last response grant, whatever earlier responses granted.
C13_FormatsFollowEntitlement ==
    /\ "MP3_128" \in SetOf(available_formats)
    /\ last_user_data # <<>> =>
         /\ SetOf(available_formats) = Granted(last_user_data)
         /\ Len(available_formats) = Cardinality(Granted(last_user_data))

\* A login whose bootstrap grants nothing, on a session that held MP3_320
\* and FLAC from an earlier bootstrap: only MP3_128 is left.
C13_Witness ==
    \E t \in Tasks :
      /\ task[t].op = "login_via_arl" /\ task[t].pc = "done"
      /\ SetOf(task[t].pre.available_formats) = {"MP3_128", "MP3_320", "FLAC"}
      /\ ~last_user_data.USER.OPTIONS.web_hq
      /\ ~last_user_data.USER.OPTIONS.web_lossless
      /\ available_formats = <<"MP3_128">>

InfoTask(t) == task[t].op = "get_track_info"
Checked(t) == task[t].info.checked # <<>>
Returned(t) == task[t].pc = "done" /\ task[t].result.status = "ok"
FixedFormats == {"MP3_128", "MP3_320", "FLAC"}
Rank(fmt) == CHOOSE i \in 1..Len(formats_priority) : formats_priority[i] = fmt
HasFile(t_data, fmt) ==
    filesize_key[fmt] \in DOMAIN t_data /\ t_data[filesize_key[fmt]] # "0"

\* The format chosen for a catalogue track: the requested one when the track
\* has a file in it, else the best lower format it has a file in, else
\* MP3_128
Selected(t_data, requested) ==
    LET cands == {f \in FixedFormats :
                    Rank(f) >= Rank(requested) /\ HasFile(t_data, f)}
    IN IF cands = {} THEN "MP3_128"
       ELSE CHOOSE f \in cands : \A g \in cands : Rank(f) <= Rank(g)

\* C14 as claimed: when the format asked for through the quality tier is
\* not among the formats of the session, the information of the track
\* carries an error.
C14_UnentitledRejected ==
    \A t \in Tasks :
      (InfoTask(t) /\ Checked(t) /\ ~task[t].info.is_user_uploaded
       /\ quality_map[task[t].info.quality_tier]
             \notin SetOf(task[t].info.checked.available_formats)) =>
        task[t].info.error # <<>>

\* C14 amended: for a catalogue track the ticket carries the format chosen
\* for the track; when that format is not among the formats of the session
\* the error is not empty, and it is returned with the name, the codec and
\* the ticket in the TrackInfo; get_track_info raises only when the
\* gateway answers one of its calls with an error envelope.
C14_SelectedFormatRejected ==
    \A t \in Tasks :
      (InfoTask(t) /\ Checked(t) /\ ~task[t].info.is_user_uploaded) =>
        LET info == task[t].info
            sel == Selected(info.t_data, info.requested)
        IN /\ info.audio_format = sel
           /\ sel \notin SetOf(info.checked.available_formats) =>
                info.error # <<>>
           /\ Returned(t) =>
                /\ task[t].result.value.error = info.error
                /\ task[t].result.value.download_data.format = sel
                /\ task[t].result.value.name = info.t_data.SNG_TITLE
                /\ task[t].result.value.codec = codec_map[sel]
           /\ task[t].pc = "done" /\ ~Returned(t) =>
                task[t].result.status = "ModuleAPIError"

\* After a bootstrap that grants MP3_320 and not FLAC, FLAC is asked for a
\* track that has a FLAC file and may be streamed in the country of the
\* session: the TrackInfo is returned with the error.
C14_Witness ==
    \E t \in Tasks :
      /\ InfoTask(t) /\ Returned(t)
      /\ last_user_data # <<>>
      /\ last_user_data.USER.OPTIONS.web_hq
      /\ ~last_user_data.USER.OPTIONS.web_lossless
      /\ task[t].info.checked.available_formats = <<"MP3_128", "MP3_320">>
      /\ task[t].info.requested = "FLAC"
      /\ HasFile(task[t].info.t_data, "FLAC")
      /\ task[t].result.value.download_data.format = "FLAC"
      /\ task[t].result.value.error =
           <<"Format", "FLAC", "not available with your subscription">>

\* The format a media request asks for
MediaFormat(e) == e.req.payload.media[1].formats[1].format

\* C15: the format of every media request is MP3_128, MP3_320 or FLAC.
C15_TicketFormatFixed ==
    \A t \in Tasks :
      UrlTask(t) =>
        \A i \in Positions(task[t].sent, IsMedia) :
          MediaFormat(task[t].sent[i]) \in FixedFormats

\* The task sends a request in this step
Sends(t) ==
    /\ task'[t].sent # task[t].sent
    /\ task'[t].sent # <<>>
LastSent(t) == task'[t].sent[Len(task'[t].sent)]

\* C16: a gateway request for deezer.getUserData or user.getArl carries an
\* empty api_token, and a gateway request for any other method carries the
\* api_token the session holds when it is sent.
C16_TokenField ==
    [][\A t \in Tasks :
         (Sends(t) /\ LastSent(t).req.endpoint = "GW_LIGHT_URL") =>
           LET rq == LastSent(t).req
           IN /\ rq.method \in AuthMethods => rq.api_token = ""
              /\ rq.method \notin AuthMethods => rq.api_token = api_token']_vars

\* A login by email on a session that holds a token has sent user.getArl
\* and then deezer.getUserData, both with an empty token.
C16_Witness ==
    \E t \in Tasks :
      /\ task[t].op = "login_via_email"
      /\ task[t].pre.api_token # ""
      /\ \E i, j \in 1..Len(task[t].sent) :
           /\ IsGw(task[t].sent[i], "user.getArl")
           /\ task[t].sent[i].req.api_token = ""
           /\ IsGw(task[t].sent[j], "deezer.getUserData")
           /\ task[t].sent[j].req.api_token = ""

\* A response with an error envelope is processed in this step
ErrorAnswered(t) ==
    /\ task[t].pc = "await_gw"
    /\ task'[t].gw.state = "raised"

\* C17: the step that processes a gateway response with an error envelope
\* ends the operation with ModuleAPIError naming the method of the request
\* that was answered and the first error of the envelope, sends no request
\* and leaves every session field, the stored credential and the cookie as
\* they were.
C17_ErrorEnvelope ==
    [][\A t \in Tasks :
         ErrorAnswered(t) =>
           /\ task'[t].pc = "done"
           /\ task'[t].result.status = "ModuleAPIError"
           /\ task'[t].result.api_endpoint = task[t].req.method
           /\ task'[t].result.error_message =
                <<"VALID_TOKEN_REQUIRED", "Invalid CSRF token">>
           /\ task'[t].sent = task[t].sent
           /\ SessionOf' = SessionOf
           /\ _arl' = _arl /\ cookie' = cookie]_vars

\* A login on a session that holds a token was answered with an error
\* envelope: the session is the one the login found.
C17_Witness ==
    \E t \in Tasks :
      /\ task[t].op = "login_via_arl"
      /\ task[t].pc = "done"
      /\ task[t].result.status = "ModuleAPIError"
      /\ task[t].result.api_endpoint = "deezer.getUserData"
      /\ task[t].pre.api_token # ""
      /\ SessionOf = task[t].pre
      /\ Len(task[t].sent) = 1

\* A gateway call to a method other than the bootstrap methods, entered
\* with a token or without a stored credential, which has a request in
\* flight
PlainCall(tk) ==
    /\ tk.pc = "await_gw"
    /\ tk.gw.method \notin AuthMethods
    /\ ~(tk.gw.entry_token = "" /\ tk.gw.entry_arl # "")

\* C19: the step that processes the answer to such a call, with or without
\* an error envelope, ends the call, which has then sent one request, and
\* leaves every session field, the stored credential and the cookie as they
\* were.
C19_PlainCallFrame ==
    [][\A t \in Tasks :
         (PlainCall(task[t]) /\ task'[t] # task[t]) =>
           /\ Len(task[t].gw.reqs) = 1
           /\ task[t].gw.reqs[1].method = task[t].gw.method
           /\ task'[t].gw.state \in {"returned", "raised"}
              \/ task'[t].gw.n > task[t].gw.n
           /\ SessionOf' = SessionOf
           /\ _arl' = _arl /\ cookie' = cookie]_vars

\* A song.getData call made with a token has returned and left the session
\* of a signed-in user as it was, a whole second after its bootstrap.
C19_Witness ==
    \E t \in Tasks :
      /\ task[t].op = "gw"
      /\ task[t].gw.method = "song.getData"
      /\ task[t].gw.state = "returned"
      /\ task[t].gw.entry_token # "" /\ task[t].gw.entry_arl # ""
      /\ Len(task[t].gw.reqs) = 1
      /\ SessionOf = task[t].pre
      /\ now > renew_timestamp

\* C20: a gateway call sends at most two requests; when it sends two, the
\* first is the one bootstrap of its auto-relogin and the second its own
\* request, whatever token the bootstrap returned.
C20_AtMostOneBootstrap ==
    \A t \in Tasks :
      LET g == task[t].gw
      IN /\ Len(g.reqs) <= 2
         /\ Len(g.reqs) = 2 =>
              /\ g.relogin
              /\ g.method \notin AuthMethods
              /\ g.reqs[1].method = "deezer.getUserData"
              /\ g.reqs[2].method = g.method
         /\ g.state \in {"own", "returned"} =>
              g.reqs[Len(g.reqs)].method = g.method
         /\ g.state = "boot" => Len(g.reqs) = 1

\* A call whose bootstrap returned an empty token has sent its own request
\* and returned.
C20_Witness ==
    \E t \in Tasks :
      /\ task[t].gw.relogin
      /\ task[t].gw.boot # <<>>
      /\ task[t].gw.boot.checkForm = ""
      /\ task[t].gw.state = "returned"
      /\ Len(task[t].gw.reqs) = 2

\* The requests of one resolution come in the order refresh, track-token
\* fetch (with its auto-relogin, if any, right before it), media request
InOrder(sent) ==
    \A i, j \in 1..Len(sent) :
      /\ IsRefresh(sent[i]) => i = 1
      /\ (IsSongData(sent[i]) /\ IsRefresh(sent[j])) => j < i
      /\ (IsMedia(sent[i]) /\ ~IsMedia(sent[j])) => j < i
      /\ (IsMedia(sent[i]) /\ IsMedia(sent[j])) => i = j

\* A renewal step of the resolution fails in this step
RenewalFails(t) ==
    /\ UrlTask(t)
    /\ task[t].pc = "await_gw"
    /\ task'[t].pc = "done"

\* C21: get_track_url sends its refresh first, then its track-token fetch,
\* then one media request and nothing after it; the media request is sent in
\* the step that ends the last renewal that was due, carries the
\* license_token the session holds in that step, which is the one of the
\* last bootstrap response processed whenever this resolution has sent a
\* bootstrap; a renewal that fails ends the resolution with an exception
\* and no media request sent.
C21_RenewalsBeforeMedia ==
    [][\A t \in Tasks :
         /\ task'[t].op = "get_track_url" => InOrder(task'[t].sent)
         /\ (UrlTask(t) /\ Sends(t) /\ IsMedia(LastSent(t))) =>
              LET tk == task'[t]
                  rq == LastSent(t).req
              IN /\ tk.renew_now # -1 /\ tk.expiry_now # -1
                 /\ Stale(t)' =>
                      Positions(tk.sent, IsRefresh) = {1}
                 /\ TrackTokenDue(tk.expiry_now, tk.args.track_token_expiry) =>
                      /\ Positions(tk.sent, IsSongData) # {}
                      /\ tk.gw.method = "song.getData"
                      /\ tk.gw.state = "returned"
                 /\ rq.payload.license_token = license_token'
                 /\ Positions(tk.sent,
                              LAMBDA e : IsGw(e, "deezer.getUserData")) # {} =>
                      rq.payload.license_token =
                        last_user_data'.USER.OPTIONS.license_token
         /\ RenewalFails(t) =>
              /\ task'[t].result.status \in {"ModuleAPIError", "KeyError"}
              /\ task'[t].sent = task[t].sent
              /\ ~MediaSent(t)']_vars

\* A resolution called on a stale session with an expired track token has
\* sent refresh, song.getData and media request, the last with the
\* license_token of the refresh and not the one the session held before.
C21_Witness ==
    \E t \in Tasks :
      /\ UrlTask(t) /\ MediaSent(t)
      /\ Len(task[t].sent) = 3
      /\ IsRefresh(task[t].sent[1])
      /\ IsSongData(task[t].sent[2])
      /\ task[t].pre.license_token = ""
      /\ task[t].sent[3].req.payload.license_token = "L1"
      /\ license_token = "L1"

EmailTask(tk) == tk.op = "login_via_email"
IsGet(e, url) == e.req.endpoint = url /\ e.req.method = ""
IsGwCall(e) == e.req.endpoint = "GW_LIGHT_URL"

\* The requests of a login by email, as far as it has got: the anonymous
\* session, the handshake with the email and password of the caller,
\* user.getArl, and the bootstrap of login_via_arl with the credential
\* fetched
EmailOrder(tk) ==
    /\ Len(tk.sent) \in 1..4
    /\ IsGet(tk.sent[1], "https://www.deezer.com")
    /\ Len(tk.sent) >= 2 =>
         /\ IsGet(tk.sent[2], "https://connect.deezer.com/oauth/user_auth.php")
         /\ tk.sent[2].req.payload =
              [email |-> tk.args.email, password |-> tk.args.password]
    /\ Len(tk.sent) >= 3 => IsGw(tk.sent[3], "user.getArl")
    /\ Len(tk.sent) = 4 =>
         /\ IsGw(tk.sent[4], "deezer.getUserData")
         /\ ~tk.sent[4].nested
         /\ tk.sent[4].req.cookie = tk.args.arl
         /\ tk.args.arl # ""

\* The handshake is answered in this step
HandshakeAnswered(t) ==
    /\ EmailTask(task[t])
    /\ task[t].pc = "await_http"
    /\ task[t].where = "user_auth"
    /\ task'[t] # task[t]

\* C22: login_via_email sends its requests in the order anonymous session,
\* handshake, user.getArl, bootstrap of login_via_arl with the credential
\* user.getArl returned; up to the answer of the handshake it sends no
\* gateway request and changes neither the session fields nor the stored
\* credential nor the cookie; a handshake answered with an error ends it
\* with ModuleAuthError in that step, any other answer is followed by
\* user.getArl; when it returns, the credential it returns is the one
\* stored in _arl and in the cookie, and the user data are those of the
\* bootstrap.
C22_EmailLoginOrder ==
    [][\A t \in Tasks :
         LET tk == task'[t]
         IN /\ EmailTask(tk) => EmailOrder(tk)
            /\ (EmailTask(tk) /\ tk.where \in {"home", "user_auth"}) =>
                 /\ Positions(tk.sent, IsGwCall) = {}
                 /\ SessionOf' = tk.pre
                 /\ _arl' = _arl /\ cookie' = cookie
            /\ HandshakeAnswered(t) =>
                 IF "error" \in DOMAIN UserAuth(task[t].req.payload)
                 THEN /\ tk.pc = "done"
                      /\ tk.result.status = "ModuleAuthError"
                      /\ tk.sent = task[t].sent
                 ELSE /\ tk.pc = "await_gw"
                      /\ Len(tk.sent) = 3
            /\ (EmailTask(tk) /\ tk.pc = "done" /\ tk.result.status = "ok") =>
                 /\ Len(tk.sent) = 4
                 /\ tk.result.value.arl_token = _arl'
                 /\ tk.result.value.arl_token = cookie'
                 /\ tk.result.value.arl_token = tk.sent[4].req.cookie
                 /\ tk.result.value.user_data = last_user_data'
                 /\ ~LoginRejected(tk.result.value.user_data)]_vars

\* A client configured with a credential the service rejects has logged in
\* by email: the credential returned is the one now stored.
C22_Witness ==
    \E t \in Tasks :
      /\ EmailTask(task[t])
      /\ task[t].pc = "done" /\ task[t].result.status = "ok"
      /\ user_arl = "AX"
      /\ task[t].result.value.arl_token = "A1"
      /\ _arl = "A1" /\ cookie = "A1"
      /\ Len(task[t].sent) = 4

\* login_via_arl is called in this step
LoginStarts(t) ==
    /\ task[t].pc = "idle"
    /\ task'[t].op = "login_via_arl"

\* The bootstrap of a login_via_arl call is answered without an error
\* envelope in this step
LoginAnswered(t) ==
    /\ task[t].op = "login_via_arl"
    /\ task[t].pc = "await_gw"
    /\ task'[t].gw.state = "returned"

\* A login has returned its user data
LoggedIn(t) ==
    /\ task[t].op = "login_via_arl"
    /\ task[t].pc = "done" /\ task[t].result.status = "ok"

\* C23: with two login_via_arl calls interleaved at their awaits, a call
\* stores its credential in _arl and the cookie when it starts, whatever
\* another call has stored there, and sends it; the step that processes
\* its answer overwrites every session field with that answer, clears _arl
\* and the cookie when the answer has no user identifier, whoever stored
\* them, and leaves them as it finds them otherwise, without storing its
\* own credential again.
C23_LoginRace ==
    [][\A t \in Tasks :
         /\ LoginStarts(t) =>
              /\ _arl' = task'[t].args.arl /\ cookie' = task'[t].args.arl
              /\ task'[t].req.cookie = task'[t].args.arl
              /\ SessionOf' = SessionOf
         /\ LoginAnswered(t) =>
              LET user_data == task'[t].gw.results
              IN /\ task[t].req.cookie = task[t].args.arl
                 /\ SessionOf' = UpdatedSession(user_data, now)
                 /\ IF user_data.USER.USER_ID = 0
                    THEN /\ _arl' = "" /\ cookie' = ""
                         /\ task'[t].result.status = "ModuleAuthError"
                    ELSE /\ _arl' = _arl /\ cookie' = cookie
                         /\ task'[t].result.status = "ok"
                         /\ task'[t].result.value = user_data]_vars

\* The race: a login with a valid credential has returned its user data,
\* and the credential and the cookie it stored are gone, cleared by the
\* rejected login that ran beside it, while api_token is set.
C23_Witness ==
    \E t \in Tasks :
      /\ LoggedIn(t)
      /\ task[t].args.arl \in ValidArls
      /\ api_token # ""
      /\ _arl = "" /\ cookie = ""

\* The session as DeezerApi.__init__ leaves it
FreshSession ==
    [api_token |-> "", country |-> "", license_token |-> "",
     language |-> "en", renew_timestamp |-> 0,
     available_formats |-> InitialFormats]

\* Every field of session s that a bootstrap response supplies has the
\* value of response user_data
StemsFrom(s, user_data) ==
    /\ s.api_token = user_data.checkForm
    /\ s.country = user_data.COUNTRY
    /\ s.license_token = user_data.USER.OPTIONS.license_token
    /\ s.language = user_data.USER.SETTING.global.language
    /\ s.available_formats =
         Formats(user_data.USER.OPTIONS, 1, InitialFormats)

\* A task processes the answer to a deezer.getUserData request in this step
BootstrapProcessed(t) ==
    /\ task[t].pc = "await_gw"
    /\ task[t].req.method = "deezer.getUserData"
    /\ task'[t] # task[t]
    /\ task'[t].gw.state # "raised"

LoginCalled(t) ==
    /\ task[t].pc = "idle"
    /\ task'[t].login.active

\* The attempt of a login with the configured credential ends in this step
ArlAttemptEnds(t) ==
    /\ task[t].login.active
    /\ task[t].op = "login_via_arl"
    /\ task[t].pc = "await_gw"
    /\ task'[t] # task[t]

\* A login ends in this step
LoginEnds(t) ==
    /\ task'[t].login.active
    /\ task[t].pc # "done"
    /\ task'[t].pc = "done"

GivenPair(lg) == lg.email # "" /\ lg.password # ""

\* C25: login called with a credential configured sends the bootstrap of
\* login_via_arl with that credential first; called without one it starts
\* login_via_email when an email and a password are given, and raises
\* ModuleAuthError at once, with no request sent and nothing changed,
\* otherwise.  When the attempt with the configured credential ends, it
\* is followed by login_via_email exactly when its answer had no user
\* identifier and an email and a password are given; a rejection without
\* such a pair ends the login with ModuleAuthError and an error envelope
\* with ModuleAPIError.  The "arl" entry of the session storage changes
\* only in the step in which a login returns, and is then the credential
\* the accepted bootstrap carried, which is the one stored in _arl.
C25_LoginFallback ==
    [][\A t \in Tasks :
         LET tk == task'[t]
             lg == tk.login
         IN /\ LoginCalled(t) =>
                 IF user_arl # ""
                 THEN /\ tk.op = "login_via_arl"
                      /\ lg.tried = <<"login_via_arl">>
                      /\ Len(tk.sent) = 1
                      /\ IsGw(tk.sent[1], "deezer.getUserData")
                      /\ tk.sent[1].req.cookie = user_arl
                 ELSE IF GivenPair(lg)
                 THEN /\ tk.op = "login_via_email"
                      /\ lg.tried = <<"login_via_email">>
                      /\ Len(tk.sent) = 1
                      /\ IsGet(tk.sent[1], "https://www.deezer.com")
                 ELSE /\ tk.pc = "done"
                      /\ tk.result.status = "ModuleAuthError"
                      /\ tk.sent = <<>> /\ lg.tried = <<>>
                      /\ SessionOf' = SessionOf
                      /\ _arl' = _arl /\ cookie' = cookie
            /\ ArlAttemptEnds(t) =>
                 IF tk.gw.state = "raised"
                 THEN /\ tk.pc = "done"
                      /\ tk.result.status = "ModuleAPIError"
                 ELSE IF last_user_data'.USER.USER_ID # 0
                 THEN /\ tk.pc = "done"
                      /\ tk.result.status = "ok"
                 ELSE IF GivenPair(lg)
                 THEN /\ tk.op = "login_via_email"
                      /\ tk.pc = "await_http"
                      /\ lg.tried = <<"login_via_arl", "login_via_email">>
                      /\ tk.args.email = lg.email
                      /\ tk.args.password = lg.password
                 ELSE /\ tk.pc = "done"
                      /\ tk.result.status = "ModuleAuthError"
            /\ (lg.active /\ tk.op = "login_via_email") =>
                 /\ GivenPair(lg)
                 /\ lg.tried \in {<<"login_via_email">>,
                                  <<"login_via_arl", "login_via_email">>}
                 /\ Len(lg.tried) = 2 <=> user_arl # ""
            /\ LoginEnds(t) =>
                 IF tk.result.status = "ok"
                 THEN /\ tsc' = [arl |-> task[t].req.cookie]
                      /\ tsc' = [arl |-> _arl']
                      /\ _arl' # ""
                      /\ Len(lg.tried) = 1 /\ user_arl # "" =>
                           tsc' = [arl |-> user_arl]
                      /\ last_user_data'.USER.USER_ID # 0
                 ELSE tsc' = tsc
            /\ tsc' # tsc =>
                 \E u \in Tasks :
                   LoginEnds(u) /\ task'[u].result.status = "ok"]_vars

\* The configured credential was rejected, the login fell back to the
\* email and password and returned: the credential saved is the one
\* fetched, not the one configured.
C25_Witness ==
    \E t \in Tasks :
      /\ task[t].login.active
      /\ task[t].pc = "done" /\ task[t].result.status = "ok"
      /\ task[t].login.tried = <<"login_via_arl", "login_via_email">>
      /\ user_arl = "AX"
      /\ tsc = [arl |-> "A1"] /\ _arl = "A1"
====
